---- MODULE Spec2Model ----
(***************************************************************************)
(* Link Extractor backend (src/app.py): URL normalisation, link            *)
(* extraction, the diff against the previous extraction of the same page   *)
(* and the size-capped history file.                                       *)
(*                                                                         *)
(* A Python str is a sequence of one-character strings; Code gives the     *)
(* code point that Python's string comparison (and so sorted()) uses.      *)
(***************************************************************************)
EXTENDS Integers, Sequences, FiniteSets, TLC

\* ------------------------------------------------------------------------
\* Strings
\* ------------------------------------------------------------------------

\* The characters the modelled inputs are written with, in ascending code
\* point order (space 32, # 35, - 45, . 46, / 47, 1 49, : 58, = 61, ? 63,
\* a..z 97..122).
Chars ==
    <<" ", "#", "-", ".", "/", "1", ":", "=", "?",
      "a", "b", "c", "d", "e", "f", "g", "h", "i", "j", "k", "l", "m",
      "n", "o", "p", "q", "r", "s", "t", "u", "v", "w", "x", "y", "z">>

\* The rank of a character in code point order: Python compares two str
\* values by the code points of their first differing characters.
Code(c) == CHOOSE i \in 1..Len(Chars) : Chars[i] = c

\* Python's str < str: lexicographic by code point, a proper prefix first.
RECURSIVE StrLess(_, _)
StrLess(s, t) ==
    IF t = <<>> THEN FALSE
    ELSE IF s = <<>> THEN TRUE
    ELSE IF Head(s) = Head(t) THEN StrLess(Tail(s), Tail(t))
    ELSE Code(Head(s)) < Code(Head(t))

\* s.find(c) as a 1-based index, 0 when c does not occur in s.
RECURSIVE Find(_, _)
Find(s, c) ==
    IF s = <<>> THEN 0
    ELSE IF Head(s) = c THEN 1
    ELSE LET r == Find(Tail(s), c) IN IF r = 0 THEN 0 ELSE r + 1

\* s[:n] and s[n:] (n counted in characters, clipped like a Python slice).
Prefix(s, n) == SubSeq(s, 1, IF n > Len(s) THEN Len(s) ELSE n)
Suffix(s, n) == SubSeq(s, (IF n > Len(s) THEN Len(s) ELSE n) + 1, Len(s))

\* str.strip(): leading and trailing whitespace removed.
RECURSIVE LStrip(_)
LStrip(s) == IF s # <<>> /\ Head(s) = " " THEN LStrip(Tail(s)) ELSE s

RECURSIVE RStrip(_)
RStrip(s) ==
    IF s # <<>> /\ s[Len(s)] = " " THEN RStrip(SubSeq(s, 1, Len(s) - 1)) ELSE s

Strip(s) == RStrip(LStrip(s))

\* s.split("/"): the segments between the separators, at least one.
RECURSIVE Split(_, _)
Split(s, c) ==
    LET i == Find(s, c) IN
    IF i = 0 THEN <<s>>
    ELSE <<Prefix(s, i - 1)>> \o Split(Suffix(s, i), c)

\* c.join(segs)
RECURSIVE Join(_, _)
Join(segs, c) ==
    IF segs = <<>> THEN <<>>
    ELSE IF Len(segs) = 1 THEN segs[1]
    ELSE segs[1] \o <<c>> \o Join(Tail(segs), c)

\* s up to the first c, and s after the first c (empty when c is missing):
\* the two halves of s.split(c, 1).
Before(s, c) == IF Find(s, c) = 0 THEN s ELSE Prefix(s, Find(s, c) - 1)
After(s, c) == IF Find(s, c) = 0 THEN <<>> ELSE Suffix(s, Find(s, c))

\* ------------------------------------------------------------------------
\* urllib.parse as app.py uses it (urlparse, urljoin, geturl)
\* ------------------------------------------------------------------------

HTTP == <<"h", "t", "t", "p">>

\* The schemes of uses_relative and uses_netloc that the inputs can name.
UsesRelative == {HTTP, <<>>}
UsesNetloc == {HTTP, <<>>}

Letters == {Chars[i] : i \in 10..35}
SchemeChars == Letters \cup {"1", "-", "."}

\* url[:i] is a scheme: i is the index of the first ":" of url.
HasScheme(url, i) ==
    /\ i > 1
    /\ url[1] \in Letters
    /\ \A k \in 1..(i - 1) : url[k] \in SchemeChars

\* The end of the netloc: the index of the first of "/", "?", "#" in s,
\* Len(s) + 1 when there is none.
RECURSIVE NetlocEnd(_)
NetlocEnd(s) ==
    IF s = <<>> \/ Head(s) \in {"/", "?", "#"} THEN 1
    ELSE 1 + NetlocEnd(Tail(s))

\* urlsplit after the netloc: fragment, then query, then path.  The inputs
\* carry no ";", so params is always empty.
ParseQuery(scheme, netloc, rest, fragment) ==
    [scheme |-> scheme, netloc |-> netloc, path |-> Before(rest, "?"),
     query |-> After(rest, "?"), fragment |-> fragment]

ParseFragment(scheme, netloc, rest) ==
    ParseQuery(scheme, netloc, Before(rest, "#"), After(rest, "#"))

ParseNetloc(scheme, s, end) ==
    ParseFragment(scheme, Prefix(s, end - 1), Suffix(s, end - 1))

\* urlsplit after the scheme: a netloc follows "//".
ParseHier(scheme, rest) ==
    IF Prefix(rest, 2) = <<"/", "/">>
    THEN ParseNetloc(scheme, Suffix(rest, 2), NetlocEnd(Suffix(rest, 2)))
    ELSE ParseFragment(scheme, <<>>, rest)

\* urlparse(url, scheme=default): the five components app.py reads or
\* replaces.
urlparse(url, default) ==
    IF HasScheme(url, Find(url, ":"))
    THEN ParseHier(Before(url, ":"), After(url, ":"))
    ELSE ParseHier(default, url)

\* urlunsplit: "//" netloc path, when there is a netloc or the scheme takes
\* one.
HierPart(p) ==
    IF p.netloc # <<>>
       \/ (p.scheme # <<>> /\ p.scheme \in UsesNetloc
           /\ Prefix(p.path, 2) # <<"/", "/">>)
    THEN <<"/", "/">> \o p.netloc
         \o (IF p.path # <<>> /\ Head(p.path) # "/" THEN <<"/">> ELSE <<>>)
         \o p.path
    ELSE p.path

\* ParseResult.geturl(): urlunparse of the components; an empty scheme,
\* query or fragment leaves no separator behind.
geturl(p) ==
    (IF p.scheme # <<>> THEN p.scheme \o <<":">> ELSE <<>>)
    \o HierPart(p)
    \o (IF p.query # <<>> THEN <<"?">> \o p.query ELSE <<>>)
    \o (IF p.fragment # <<>> THEN <<"#">> \o p.fragment ELSE <<>>)

\* The dot-segment loop of urljoin over the merged path segments.
RECURSIVE ResolveSegments(_, _)
ResolveSegments(segments, resolved) ==
    IF segments = <<>> THEN resolved
    ELSE IF Head(segments) = <<".", ".">>
    THEN ResolveSegments(Tail(segments),
             IF resolved = <<>> THEN resolved
             ELSE SubSeq(resolved, 1, Len(resolved) - 1))
    ELSE IF Head(segments) = <<".">>
    THEN ResolveSegments(Tail(segments), resolved)
    ELSE ResolveSegments(Tail(segments), Append(resolved, Head(segments)))

\* segments[1:-1] = filter(None, segments[1:-1])
DropEmptyInner(segments) ==
    IF Len(segments) <= 2 THEN segments
    ELSE <<segments[1]>>
         \o SelectSeq(SubSeq(segments, 2, Len(segments) - 1),
                      LAMBDA g : g # <<>>)
         \o <<segments[Len(segments)]>>

\* base_parts: the segments of the base path without its last one, unless
\* that is empty.
BaseParts(bparts) ==
    IF bparts[Len(bparts)] # <<>> THEN SubSeq(bparts, 1, Len(bparts) - 1)
    ELSE bparts

\* The segments urljoin resolves: those of an absolute path, or the base
\* directory's followed by those of a relative path.
MergeSegments(bpath, path) ==
    IF Head(path) = "/" THEN Split(path, "/")
    ELSE DropEmptyInner(BaseParts(Split(bpath, "/")) \o Split(path, "/"))

\* '/'.join(resolved_path) or '/': a trailing "." or ".." leaves a "/".
ResolvedPath(segments) ==
    IF segments[Len(segments)] \in {<<".">>, <<".", ".">>}
    THEN Join(Append(ResolveSegments(segments, <<>>), <<>>), "/")
    ELSE Join(ResolveSegments(segments, <<>>), "/")

OrSlash(path) == IF path = <<>> THEN <<"/">> ELSE path

\* urljoin once base and url are parsed into b and u.
JoinParsed(url, b, u) ==
    IF u.scheme # b.scheme \/ u.scheme \notin UsesRelative THEN url
    ELSE IF u.scheme \in UsesNetloc /\ u.netloc # <<>> THEN geturl(u)
    ELSE IF u.path = <<>>
    THEN geturl([scheme |-> u.scheme,
                 netloc |-> IF u.scheme \in UsesNetloc THEN b.netloc
                            ELSE u.netloc,
                 path |-> b.path,
                 query |-> IF u.query = <<>> THEN b.query ELSE u.query,
                 fragment |-> u.fragment])
    ELSE geturl([scheme |-> u.scheme,
                 netloc |-> IF u.scheme \in UsesNetloc THEN b.netloc
                            ELSE u.netloc,
                 path |-> OrSlash(ResolvedPath(MergeSegments(b.path, u.path))),
                 query |-> u.query,
                 fragment |-> u.fragment])

JoinBase(url, b) == JoinParsed(url, b, urlparse(url, b.scheme))

\* urljoin(base, url)
urljoin(base, url) ==
    IF base = <<>> THEN url
    ELSE IF url = <<>> THEN base
    ELSE JoinBase(url, urlparse(base, <<>>))

\* ------------------------------------------------------------------------
\* Link extraction
\* ------------------------------------------------------------------------

\* parsed left with its query whatever remove_query says.
ReplaceQueryNever(parsed, remove_query) == parsed

\* parsed._replace(query='') and parsed._replace(fragment=''), when asked.
ReplaceQuery(parsed, remove_query) ==
    IF remove_query THEN [parsed EXCEPT !.query = <<>>] ELSE parsed

ReplaceFragment(parsed, remove_anchors) ==
    IF remove_anchors THEN [parsed EXCEPT !.fragment = <<>>] ELSE parsed

\* normalize_url(url, base_url, remove_query, remove_anchors)
normalize_url(url, base_url, remove_query, remove_anchors) ==
    geturl(ReplaceFragment(
               ReplaceQuery(urlparse(urljoin(base_url, url), <<>>),
                            remove_query),
               remove_anchors))

\* A Python dict with str keys is a function on its keys; dict.get(k, d):
Get(dict, key, default) == IF key \in DOMAIN dict THEN dict[key] ELSE default

\* The empty dict {} and the value None.
EmptyDict == [k \in {} |-> TRUE]
None == [py |-> "None"]

\* The default options of extract_links_from_html (options is None).
DefaultOptions ==
    [internal_only |-> TRUE, remove_query |-> TRUE, remove_anchors |-> TRUE]

\* if normalized_url: links.append(normalized_url)
AppendIfTruthy(normalized_url) ==
    IF normalized_url # <<>> THEN <<normalized_url>> ELSE <<>>

\* One <a> element (a dict of its attributes): the link it adds to links.
\* find_all('a', href=True) skips an element without href; the loop skips
\* an empty href and "#".
LinkOf(link, base_url, options) ==
    IF "href" \notin DOMAIN link THEN <<>>
    ELSE IF link["href"] = <<>> \/ link["href"] = <<"#">> THEN <<>>
    ELSE AppendIfTruthy(normalize_url(link["href"], base_url,
                                      Get(options, "remove_query", TRUE),
                                      Get(options, "remove_anchors", TRUE)))

\* The loop over soup.find_all('a', href=True): html is the sequence of the
\* document's <a> elements.
RECURSIVE CollectLinks(_, _, _)
CollectLinks(html, base_url, options) ==
    IF html = <<>> THEN <<>>
    ELSE LinkOf(Head(html), base_url, options)
         \o CollectLinks(Tail(html), base_url, options)

AddIfNew(seen, x) ==
    IF \E i \in 1..Len(seen) : seen[i] = x THEN seen ELSE Append(seen, x)

\* list(set(links)): each distinct element once.  Python leaves the order
\* of a set unspecified; sorted() below makes the result independent of it,
\* so the first occurrences are kept in place.
RECURSIVE Unique(_)
Unique(links) ==
    IF links = <<>> THEN <<>>
    ELSE AddIfNew(Unique(SubSeq(links, 1, Len(links) - 1)), links[Len(links)])

\* sorted(list) of str: insertion into an ascending list, stable.
RECURSIVE Insert(_, _)
Insert(sortedSeq, x) ==
    IF sortedSeq = <<>> THEN <<x>>
    ELSE IF StrLess(x, Head(sortedSeq)) THEN <<x>> \o sortedSeq
    ELSE <<Head(sortedSeq)>> \o Insert(Tail(sortedSeq), x)

\* The list returned as it is, without sorted().
Unsorted(list) == list

RECURSIVE Sorted(_)
Sorted(list) ==
    IF list = <<>> THEN <<>>
    ELSE Insert(Sorted(SubSeq(list, 1, Len(list) - 1)), list[Len(list)])

\* The links whose netloc is base_domain.
SameDomain(unique_links, base_domain) ==
    SelectSeq(unique_links,
              LAMBDA link : urlparse(link, <<>>).netloc = base_domain)

\* The internal_only filter of extract_links_from_html.
FilterLinks(unique_links, base_url, options) ==
    IF Get(options, "internal_only", TRUE)
    THEN SameDomain(unique_links, urlparse(base_url, <<>>).netloc)
    ELSE unique_links

\* extract_links_from_html for options that are a dict.
ExtractWith(html, base_url, options) ==
    Sorted(FilterLinks(Unique(CollectLinks(html, base_url, options)),
                       base_url, options))

\* extract_links_from_html(html, base_url, options)
extract_links_from_html(html, base_url, options) ==
    IF options = None THEN ExtractWith(html, base_url, DefaultOptions)
    ELSE ExtractWith(html, base_url, options)

\* ------------------------------------------------------------------------
\* History store: the directory DATA_DIR and the file HISTORY_FILE
\* ------------------------------------------------------------------------

\* The number of records save_history keeps (the newest ones).
HistoryCap == 50

\* The content of HISTORY_FILE: absent, the text json.dump wrote for a
\* value, or the partial text a failed json.dump left after open(.., 'w')
\* truncated the file.
Absent == [kind |-> "absent"]
Partial == [kind |-> "partial"]
json_dump(value) == [kind |-> "json", value |-> value]

\* json.load(f): the value of a complete document, an exception otherwise.
json_load(text) ==
    IF text.kind = "json" THEN [raised |-> FALSE, value |-> text.value]
    ELSE [raised |-> TRUE, value |-> <<>>]

\* The calls of the operating system that can raise OSError.  A request is
\* served with a set io of the calls that fail while it runs.
IOCalls == {"makedirs", "open_r", "open_w", "dump", "remove"}

\* The result of a call: raised tells whether an exception left it, fs is
\* the file system afterwards and value what the call returned.
Result(raised, fs, value) == [raised |-> raised, fs |-> fs, value |-> value]

\* ensure_data_dir(): os.makedirs when the directory is missing.
\* fs is [dir |-> the directory exists, file |-> content of HISTORY_FILE].
ensure_data_dir(fs, io) ==
    IF fs.dir THEN Result(FALSE, fs, None)
    ELSE IF "makedirs" \in io THEN Result(TRUE, fs, None)
    ELSE Result(FALSE, [fs EXCEPT !.dir = TRUE], None)

\* The try block of load_history: [] when the file is absent or when open
\* or json.load raises.
ReadHistory(text, io) ==
    IF text.kind = "absent" \/ "open_r" \in io \/ json_load(text).raised
    THEN <<>>
    ELSE json_load(text).value

\* load_history() after ensure_data_dir() gave e: ensure_data_dir runs
\* before the try block, so its exception propagates.
LoadAfter(e, io) ==
    IF e.raised THEN Result(TRUE, e.fs, <<>>)
    ELSE Result(FALSE, e.fs, ReadHistory(e.fs.file, io))

\* load_history()
load_history(fs, io) == LoadAfter(ensure_data_dir(fs, io), io)

\* Trim keeping the last HistoryCap entries (history[-50:]).
TrimKeepsOldest(history) ==
    IF Len(history) > HistoryCap
    THEN SubSeq(history, Len(history) - HistoryCap + 1, Len(history))
    ELSE history

\* No trim: every record is kept.
TrimNever(history) == history

\* "if len(history) > 50: history = history[:50]"
Trim(history) ==
    IF Len(history) > HistoryCap THEN SubSeq(history, 1, HistoryCap)
    ELSE history

\* history.insert(0, data) and the trim to the newest HistoryCap records.
InsertAndTrim(history, data) == Trim(<<data>> \o history)

\* save_history giving up, and returning False, when the file holds a
\* text that is not a document.
WriteAfterKeepsCorrupt(l, io, data) ==
    IF l.raised \/ "open_w" \in io \/ l.fs.file = Partial
    THEN Result(FALSE, l.fs, FALSE)
    ELSE IF "dump" \in io
    THEN Result(FALSE, [l.fs EXCEPT !.file = Partial], FALSE)
    ELSE Result(FALSE,
                [l.fs EXCEPT !.file = json_dump(InsertAndTrim(l.value, data))],
                TRUE)

\* The try block of save_history once load_history() gave l: open(.., 'w')
\* raises and leaves the file alone, or truncates it; then json.dump raises
\* and leaves a partial text, or writes the document.
WriteAfter(l, io, data) ==
    IF l.raised \/ "open_w" \in io THEN Result(FALSE, l.fs, FALSE)
    ELSE IF "dump" \in io
    THEN Result(FALSE, [l.fs EXCEPT !.file = Partial], FALSE)
    ELSE Result(FALSE,
                [l.fs EXCEPT !.file = json_dump(InsertAndTrim(l.value, data))],
                TRUE)

\* save_history(data) after ensure_data_dir() gave e, which again runs
\* before the try block.
SaveAfter(e, io, data) ==
    IF e.raised THEN Result(TRUE, e.fs, FALSE)
    ELSE WriteAfter(load_history(e.fs, io), io, data)

\* save_history(data): value is the returned True/False.
save_history(fs, io, data) == SaveAfter(ensure_data_dir(fs, io), io, data)

\* The scan taken from the end of history: the last item that matches.
RECURSIVE LastMatch(_, _)
LastMatch(history, url) ==
    IF history = <<>> THEN None
    ELSE IF history[Len(history)].base_url = url THEN history[Len(history)]
    ELSE LastMatch(SubSeq(history, 1, Len(history) - 1), url)

\* The first item of history whose base_url is url, None when there is none.
RECURSIVE FirstMatch(_, _)
FirstMatch(history, url) ==
    IF history = <<>> THEN None
    ELSE IF Head(history).base_url = url THEN Head(history)
    ELSE FirstMatch(Tail(history), url)

PreviousAfter(l, url) ==
    Result(l.raised, l.fs,
           IF l.raised THEN None ELSE FirstMatch(l.value, url))

\* get_previous_data(url)
get_previous_data(fs, io, url) == PreviousAfter(load_history(fs, io), url)

\* ------------------------------------------------------------------------
\* Request handlers
\* ------------------------------------------------------------------------

\* The response of a handler and what it left behind: status and json are
\* the HTTP response, fs the file system afterwards, fetched what
\* requests.get gave (None when the handler made no such call) and saved
\* the value save_history returned.
Reply(fs, status, json, fetched, saved) ==
    [fs |-> fs, status |-> status, json |-> json, fetched |-> fetched,
     saved |-> saved]

\* The error texts of the handlers, by the line that produces them.
ErrNoUrl == "no url given"              \* app.py:139
ErrInvalidUrl == "not a valid url"      \* app.py:148
ErrFetch == "fetch failed: "            \* app.py:161
ErrUnexpected == "unexpected error: "   \* app.py:192
ErrHistory == "history failed: "        \* app.py:201
ErrClear == "clear failed: "            \* app.py:212
OSErrorText == "OSError"
AttributeErrorText == "AttributeError"

\* A JSON value that is not an object, a string or null (a number, a
\* boolean) is a record that names its Python type.  HasGet(options):
\* options is None or a dict, the values on which line 77 or options.get
\* does not raise.
NotADict == [py |-> "int"]
HasGet(options) == options = None \/ "py" \notin DOMAIN options

\* The previous record's new_links taken for its all_links.
LinkSetOfNewLinks(previous_data) ==
    {previous_data.new_links[i] : i \in 1..Len(previous_data.new_links)}

\* set(previous_data.get('all_links', []))
LinkSet(previous_data) ==
    {previous_data.all_links[i] : i \in 1..Len(previous_data.all_links)}

\* new_links without the diff: every link, whatever the previous record.
NewLinksNoDiff(all_links, previous_data) == all_links

Reverse(seq) == [i \in 1..Len(seq) |-> seq[Len(seq) + 1 - i]]

\* new_links as list(set(all_links) - previous_links): the order of
\* all_links is lost (here: reversed).
NewLinksUnordered(all_links, previous_data) ==
    IF previous_data # None
    THEN Reverse(SelectSeq(all_links,
                           LAMBDA link : link \notin LinkSet(previous_data)))
    ELSE Reverse(all_links)

\* new_links of extract_links: the links that the previous record lacks,
\* every link when there is no previous record.
NewLinks(all_links, previous_data) ==
    IF previous_data # None
    THEN SelectSeq(all_links, LAMBDA link : link \notin LinkSet(previous_data))
    ELSE all_links

\* The result dict with new_count counting all_links.
ResultDataCountsAll(target_url, all_links, new_links, now, options) ==
    [base_url |-> target_url,
     all_links |-> all_links,
     new_links |-> new_links,
     timestamp |-> now,
     total_count |-> Len(all_links),
     new_count |-> Len(all_links),
     options |-> options]

\* The result dict of extract_links.
ResultData(target_url, all_links, new_links, now, options) ==
    [base_url |-> target_url,
     all_links |-> all_links,
     new_links |-> new_links,
     timestamp |-> now,
     total_count |-> Len(all_links),
     new_count |-> Len(new_links),
     options |-> options]

\* extract_links from save_history(result) on: its exception reaches the
\* outer handler, its return value is ignored.
RespondAfter(saved, fetched, result) ==
    IF saved.raised
    THEN Reply(saved.fs, 500, [error |-> ErrUnexpected \o OSErrorText],
               fetched, FALSE)
    ELSE Reply(saved.fs, 200, result, fetched, saved.value)

\* save_history(result), then the response.
SaveAndRespond(fs, io, fetched, result) ==
    RespondAfter(save_history(fs, io, result), fetched, result)

\* The diff taking the previous record only when it was made with the same
\* options.
DiffAndSaveSameOptions(now, target_url, options, fetched, all_links, prev, io) ==
    IF prev.raised
    THEN Reply(prev.fs, 500, [error |-> ErrUnexpected \o OSErrorText],
               fetched, FALSE)
    ELSE SaveAndRespond(prev.fs, io, fetched,
             ResultData(target_url, all_links,
                        NewLinks(all_links,
                                 IF prev.value = None THEN None
                                 ELSE IF prev.value.options = options
                                 THEN prev.value
                                 ELSE None),
                        now, options))

\* extract_links from the diff on, once get_previous_data gave prev.
DiffAndSave(now, target_url, options, fetched, all_links, prev, io) ==
    IF prev.raised
    THEN Reply(prev.fs, 500, [error |-> ErrUnexpected \o OSErrorText],
               fetched, FALSE)
    ELSE SaveAndRespond(prev.fs, io, fetched,
             ResultData(target_url, all_links,
                        NewLinks(all_links, prev.value), now, options))

\* The URL check and the fetch, with a failed fetch recorded in the history
\* as an extraction without links.
ExtractFromRecordsFailure(fs, now, target_url, options, parsed_url, fetched, io) ==
    IF parsed_url.scheme = <<>> \/ parsed_url.netloc = <<>>
    THEN Reply(fs, 400, [error |-> ErrInvalidUrl], None, FALSE)
    ELSE IF ~fetched.ok
    THEN Reply(save_history(fs, io,
                   ResultData(target_url, <<>>, <<>>, now, options)).fs,
               400, [error |-> ErrFetch \o fetched.exc], fetched, FALSE)
    ELSE DiffAndSave(now, target_url, options, fetched,
             extract_links_from_html(fetched.text, target_url, options),
             get_previous_data(fs, io, target_url), io)

\* The URL check and the fetch, with a failed fetch answered through the
\* outer handler (500) and not by the 400 of its own except clause.
ExtractFromFetch500(fs, now, target_url, options, parsed_url, fetched, io) ==
    IF parsed_url.scheme = <<>> \/ parsed_url.netloc = <<>>
    THEN Reply(fs, 400, [error |-> ErrInvalidUrl], None, FALSE)
    ELSE IF ~fetched.ok
    THEN Reply(fs, 500, [error |-> ErrUnexpected \o fetched.exc], fetched,
               FALSE)
    ELSE IF ~HasGet(options)
    THEN Reply(fs, 500, [error |-> ErrUnexpected \o AttributeErrorText],
               fetched, FALSE)
    ELSE DiffAndSave(now, target_url, options, fetched,
             extract_links_from_html(fetched.text, target_url, options),
             get_previous_data(fs, io, target_url), io)

\* extract_links from the URL check on.  extract_links_from_html calls
\* options.get(...) on every path unless options is None, so options that
\* are neither a dict nor None raise AttributeError there, which the outer
\* handler answers.
ExtractFrom(fs, now, target_url, options, parsed_url, fetched, io) ==
    IF parsed_url.scheme = <<>> \/ parsed_url.netloc = <<>>
    THEN Reply(fs, 400, [error |-> ErrInvalidUrl], None, FALSE)
    ELSE IF ~fetched.ok
    THEN Reply(fs, 400, [error |-> ErrFetch \o fetched.exc], fetched, FALSE)
    ELSE IF ~HasGet(options)
    THEN Reply(fs, 500, [error |-> ErrUnexpected \o AttributeErrorText],
               fetched, FALSE)
    ELSE DiffAndSave(now, target_url, options, fetched,
             extract_links_from_html(fetched.text, target_url, options),
             get_previous_data(fs, io, target_url), io)

\* extract_links(): POST /api/extract with JSON body data, served at time
\* now, where requests.get + raise_for_status gives fetched.
extract_links(fs, now, data, fetched, io) ==
    IF data = EmptyDict \/ "url" \notin DOMAIN data
    THEN Reply(fs, 400, [error |-> ErrNoUrl], None, FALSE)
    ELSE ExtractFrom(fs, now, Strip(data["url"]),
                     Get(data, "options", EmptyDict),
                     urlparse(Strip(data["url"]), <<>>), fetched, io)

\* get_history() once load_history() gave l.
HistoryAfter(l) ==
    IF l.raised
    THEN Reply(l.fs, 500, [error |-> ErrHistory \o OSErrorText], None, FALSE)
    ELSE Reply(l.fs, 200, l.value, None, FALSE)

\* get_history(): GET /api/history
get_history(fs, io) == HistoryAfter(load_history(fs, io))

\* clear_history() calling os.remove without the os.path.exists check:
\* FileNotFoundError when there is no file.
ClearAfterNoExistsCheck(e, io) ==
    IF e.raised \/ e.fs.file.kind = "absent" \/ "remove" \in io
    THEN Reply(e.fs, 500, [error |-> ErrClear \o OSErrorText], None, FALSE)
    ELSE Reply([e.fs EXCEPT !.file = Absent], 200,
               [success |-> TRUE, message |-> "cleared"], None, FALSE)

\* clear_history() once ensure_data_dir() gave e: os.remove when the file
\* exists.
ClearAfter(e, io) ==
    IF e.raised \/ (e.fs.file.kind # "absent" /\ "remove" \in io)
    THEN Reply(e.fs, 500, [error |-> ErrClear \o OSErrorText], None, FALSE)
    ELSE Reply([e.fs EXCEPT !.file = Absent], 200,
               [success |-> TRUE, message |-> "cleared"], None, FALSE)

\* clear_history(): DELETE /api/history
clear_history(fs, io) == ClearAfter(ensure_data_dir(fs, io), io)

\* health_check(): GET /api/health
health_check(fs, now) ==
    Reply(fs, 200, [status |-> "ok", timestamp |-> now, version |-> "1.0.0"],
          None, FALSE)

\* ------------------------------------------------------------------------
\* The server as a state machine: one action per request
\* ------------------------------------------------------------------------

VARIABLES
    dirExists,  \* DATA_DIR exists
    file,       \* the content of HISTORY_FILE
    clock,      \* the requests served so far; datetime.now() of the next one
    faults,     \* the requests served so far during which an OS call failed
    lastOp,     \* the last request served: its handler (op), its JSON body
                \* (data), the OS calls that failed during it (io), what its
                \* fetch gave, its response and what save_history returned
    saves,      \* the records save_history stored since the file was last
                \* absent, oldest first
    clean,      \* no OS call failed while get_previous_data or save_history
                \* ran since the file was last absent
    workers     \* per server thread: where the extract_links call it runs
                \* stands (pc) and the call's local variables

vars == <<dirExists, file, clock, faults, lastOp, saves, clean, workers>>

\* The threads of the server that serve requests at the same time, and a
\* thread that is not serving a request.
Workers == {"A", "B"}
Idle == [pc |-> "idle"]

\* The requests served in a run, and those served while an OS call fails.
MaxOps == 3
MaxFaults == 1

\* Python str values of the inputs.
U1 == <<"h", "t", "t", "p", ":", "/", "/", "s">>
U1Padded == <<" ">> \o U1 \o <<" ">>
U2 == <<"h", "t", "t", "p", ":", "/", "/", "o", "/", "x">>
NotAUrl == <<"n", "o", "t", " ", "a", " ", "u", "r", "l">>
NoHost == <<"h", "t", "t", "p", ":">>

\* Two versions of a page: its <a> elements in document order.
PageA ==
    << [href |-> <<"/", "a">>],
       [href |-> <<"#">>],
       [href |-> <<>>],
       [name |-> <<"t", "o", "p">>],
       [href |-> U2],
       [href |-> <<"/", "a", "?", "x", "=", "1", "#", "f">>] >>
PageB ==
    << [href |-> <<"/", "b">>],
       [href |-> <<"/", "a">>],
       [href |-> <<"b">>],
       [href |-> <<"/", "c">>] >>
Pages == {PageA, PageB}

\* JSON bodies of POST /api/extract.
ValidBodies ==
    { [url |-> U1Padded],
      [url |-> U1, options |-> [internal_only |-> FALSE]],
      [url |-> U2] }
InvalidBodies == { EmptyDict, [url |-> NotAUrl], [url |-> NoHost] }
Bodies == ValidBodies \cup InvalidBodies

\* Outcomes of requests.get(...) followed by raise_for_status().
Fetches ==
    {[ok |-> TRUE, text |-> p] : p \in Pages}
    \cup {[ok |-> FALSE, exc |-> "ConnectTimeout"],
          [ok |-> FALSE, exc |-> "404 Client Error"]}

\* The OS calls that fail during one request: none, or one kind of call.
IOFaults == {{}} \cup {{c} : c \in IOCalls}

FS == [dir |-> dirExists, file |-> file]

Init ==
    /\ dirExists = FALSE
    /\ file = Absent
    /\ clock = 0
    /\ faults = 0
    /\ lastOp = [op |-> "none"]
    /\ saves = <<>>
    /\ clean = TRUE
    /\ workers = [w \in Workers |-> Idle]

\* What every request does to the state, given the handler's reply r: a
\* request served from start to end while no other request is running.
Serve(op, data, io, r) ==
    /\ UNCHANGED workers
    /\ dirExists' = r.fs.dir
    /\ file' = r.fs.file
    /\ clock' = clock + 1
    /\ faults' = IF io # {} THEN faults + 1 ELSE faults
    /\ lastOp' = [op |-> op, data |-> data, io |-> io, fetched |-> r.fetched,
                  status |-> r.status, json |-> r.json, saved |-> r.saved]

\* The bookkeeping of saves and clean for an extraction that replied r.
Extracted(data, io, r) ==
    /\ Serve("extract", data, io, r)
    /\ saves' = IF r.saved THEN Append(saves, r.json) ELSE saves
    /\ clean' = (clean /\ (io = {} \/ r.status = 400))

\* POST /api/extract
ExtractLinks(data, fetched, io) ==
    Extracted(data, io, extract_links(FS, clock, data, fetched, io))

\* GET /api/history
GetHistory(io) ==
    /\ Serve("history", None, io, get_history(FS, io))
    /\ UNCHANGED <<saves, clean>>

Cleared(io, r) ==
    /\ Serve("clear", None, io, r)
    /\ saves' = IF r.fs.file = Absent THEN <<>> ELSE saves
    /\ clean' = IF r.fs.file = Absent THEN TRUE ELSE clean

\* DELETE /api/history
ClearHistory(io) == Cleared(io, clear_history(FS, io))

\* GET /api/health
HealthCheck ==
    /\ Serve("health", None, {}, health_check(FS, clock))
    /\ UNCHANGED <<saves, clean>>

ExtractFaults ==
    {f \in IOFaults : f \subseteq {"makedirs", "open_r", "open_w", "dump"}}
HistoryFaults == {f \in IOFaults : f \subseteq {"makedirs", "open_r"}}
ClearFaults == {f \in IOFaults : f \subseteq {"makedirs", "remove"}}

\* A run serves at most MaxOps requests, at most MaxFaults of them while
\* an OS call fails.  A failure is drawn only for a call that the request
\* can make: os.makedirs when the directory is missing, open(.., 'r') and
\* os.remove when the file exists.
Bounded(io) ==
    /\ clock < MaxOps
    /\ io # {} => faults < MaxFaults
    /\ "makedirs" \in io => ~dirExists
    /\ (io \cap {"open_r", "remove"}) # {} => file # Absent

\* extract_links reaches the history store only with a url that parses and
\* a fetch that succeeds.
ReachesStore(data, fetched) ==
    /\ "url" \in DOMAIN data
    /\ urlparse(Strip(data["url"]), <<>>).scheme # <<>>
    /\ urlparse(Strip(data["url"]), <<>>).netloc # <<>>
    /\ fetched.ok

Next ==
    \/ \E data \in Bodies, fetched \in Fetches, io \in ExtractFaults :
           /\ Bounded(io)
           /\ io # {} => ReachesStore(data, fetched)
           /\ ExtractLinks(data, fetched, io)
    \/ \E io \in HistoryFaults : Bounded(io) /\ GetHistory(io)
    \/ \E io \in ClearFaults : Bounded(io) /\ ClearHistory(io)
    \/ Bounded({}) /\ HealthCheck

Spec == Init /\ [][Next]_vars

\* ------------------------------------------------------------------------
\* Long runs: the history reaches and passes its cap
\* ------------------------------------------------------------------------

\* A long run extracts U1 (PageA) any number of times and U2 (PageB) at
\* most MaxRevisits times, HistoryCap + CapExtra requests in all, with no
\* OS call failing.
CapExtra == 2
MaxRevisits == 1

Revisits == Cardinality({i \in 1..Len(saves) : saves[i].base_url = U2})

ExtractU1 ==
    /\ clock < HistoryCap + CapExtra
    /\ ExtractLinks([url |-> U1Padded], [ok |-> TRUE, text |-> PageA], {})

ExtractU2 ==
    /\ clock < HistoryCap + CapExtra
    /\ Revisits < MaxRevisits
    /\ ExtractLinks([url |-> U2], [ok |-> TRUE, text |-> PageB], {})

NextCap == ExtractU1 \/ ExtractU2

SpecCap == Init /\ [][NextCap]_vars

\* ------------------------------------------------------------------------
\* Long runs: a URL is extracted again after other URLs
\* ------------------------------------------------------------------------

\* A long run extracts U1 (PageA) any number of times and U2 (PageB) as its
\* first request and once more at any later time, HistoryCap + CapExtra
\* requests in all, with no OS call failing.
VisitU2 ==
    /\ clock < HistoryCap + CapExtra
    /\ clock = 0 \/ Revisits = 1
    /\ ExtractLinks([url |-> U2], [ok |-> TRUE, text |-> PageB], {})

NextEvict == ExtractU1 \/ VisitU2

SpecEvict == Init /\ [][NextEvict]_vars

\* ------------------------------------------------------------------------
\* One extraction of every small page
\* ------------------------------------------------------------------------

\* The pages of at most MaxAnchors <a> elements drawn from Anchors.
MaxAnchors == 3

Anchors ==
    { [href |-> <<"/", "b">>],
      [href |-> <<"/", "a">>],
      [href |-> <<"/", "a", "?", "x", "=", "1", "#", "f">>],
      [href |-> U2],
      [href |-> <<"#">>],
      [name |-> <<"t", "o", "p">>] }

SmallPages == UNION {[1..n -> Anchors] : n \in 0..MaxAnchors}

OptionBodies ==
    { [url |-> U1],
      [url |-> U1, options |-> [internal_only |-> FALSE]],
      [url |-> U1, options |-> [remove_query |-> FALSE,
                                remove_anchors |-> FALSE]],
      [url |-> U1, options |-> [internal_only |-> FALSE,
                                remove_query |-> FALSE,
                                remove_anchors |-> FALSE]],
      [url |-> U2] }

ExtractPage ==
    /\ clock = 0
    /\ \E data \in OptionBodies, html \in SmallPages :
           ExtractLinks(data, [ok |-> TRUE, text |-> html], {})

NextPages == ExtractPage

SpecPages == Init /\ [][NextPages]_vars

\* ------------------------------------------------------------------------
\* Extraction requests with every kind of body
\* ------------------------------------------------------------------------

\* A run of MaxRequests POST /api/extract requests whose bodies are: {}, a
\* url that does not parse, a url alone, options null, and options that are
\* not an object.
MaxRequests == 2

AnyBodies ==
    { EmptyDict,
      [url |-> NotAUrl],
      [url |-> U1Padded],
      [url |-> U1, options |-> None],
      [url |-> U1, options |-> NotADict] }

ExtractAny ==
    \E data \in AnyBodies, fetched \in Fetches, io \in ExtractFaults :
        /\ clock < MaxRequests
        /\ io # {} => /\ faults < MaxFaults
                      /\ ReachesStore(data, fetched)
                      /\ HasGet(Get(data, "options", EmptyDict))
        /\ "makedirs" \in io => ~dirExists
        /\ "open_r" \in io => file # Absent
        /\ ExtractLinks(data, fetched, io)

NextRequests == ExtractAny

SpecRequests == Init /\ [][NextRequests]_vars

\* ------------------------------------------------------------------------
\* Two extraction requests served at the same time
\* ------------------------------------------------------------------------

\* Each thread of Workers serves one successful extraction, no OS call
\* failing, in the steps at which extract_links reads or writes the file:
\*   "idle"    -> lines 137-183 (get_previous_data reads the file)
\*   "load"    -> lines 43-50   (save_history: load_history reads the file)
\*   "open"    -> line 52       (open(.., 'w') truncates the file)
\*   "dump"    -> line 53       (json.dump writes the document)
\*   "respond" -> lines 54, 188 (the 200 response)
ConcurrentBodies == { [url |-> U1Padded], [url |-> U2] }

\* The result dict of lines 164-183.
ResultOf(target_url, options, all_links, previous_data, now) ==
    ResultData(target_url, all_links, NewLinks(all_links, previous_data),
               now, options)

\* Lines 137-183 for worker p: the url check, the fetch, the extraction and
\* the diff against the record get_previous_data reads now.
LookupStep(p) ==
    /\ workers[p].pc = "idle"
    /\ \E data \in ConcurrentBodies, html \in Pages :
           workers' = [workers EXCEPT ![p] =
               [pc |-> "load",
                data |-> data,
                fetched |-> [ok |-> TRUE, text |-> html],
                result |->
                    ResultOf(Strip(data["url"]),
                             Get(data, "options", EmptyDict),
                             extract_links_from_html(
                                 html, Strip(data["url"]),
                                 Get(data, "options", EmptyDict)),
                             get_previous_data(FS, {},
                                               Strip(data["url"])).value,
                             clock)]]
    /\ dirExists' = TRUE
    /\ clock' = clock + 1
    /\ UNCHANGED <<file, faults, lastOp, saves, clean>>

\* Lines 43-50 for worker p: history = load_history(); the insert and the
\* trim act on this list.  writesSeen counts the documents written so far.
LoadStep(p) ==
    /\ workers[p].pc = "load"
    /\ workers' = [workers EXCEPT ![p] =
           [pc |-> "open",
            data |-> workers[p].data,
            fetched |-> workers[p].fetched,
            result |-> workers[p].result,
            history |-> load_history(FS, {}).value,
            writesSeen |-> Len(saves)]]
    /\ UNCHANGED <<dirExists, file, clock, faults, lastOp, saves, clean>>

\* The history reread from the file at the moment it is opened for
\* writing: the append as one atomic read-modify-write.
HistoryRereadAtOpen(w, text) == ReadHistory(text, {})

\* The list that worker w has in hand when it opens the file for writing,
\* given the text the file holds then: the list it loaded at line 45.
HistoryAtOpen(w, text) == w.history

\* Line 52 for worker p: open(HISTORY_FILE, 'w') truncates the file; an
\* empty file is not a JSON document.
OpenStep(p) ==
    /\ workers[p].pc = "open"
    /\ workers' = [workers EXCEPT ![p] =
           [workers[p] EXCEPT
                !.pc = "dump",
                !.history = HistoryAtOpen(workers[p], file)]]
    /\ file' = Partial
    /\ UNCHANGED <<dirExists, clock, faults, lastOp, saves, clean>>

\* The texts the file can hold once worker w has written its document from
\* offset 0 while the file holds text: the document when the file is still
\* empty; when another thread has written since w truncated the file, the
\* document or, when it is the shorter one, a text with the tail of the
\* other document.
DumpOutcomes(w, text) ==
    IF text = Partial
    THEN {json_dump(InsertAndTrim(w.history, w.result))}
    ELSE {json_dump(InsertAndTrim(w.history, w.result)), Partial}

\* Line 53 for worker p: json.dump(history, f) and the close of the file.
DumpStep(p) ==
    /\ workers[p].pc = "dump"
    /\ file' \in DumpOutcomes(workers[p], file)
    /\ saves' = Append(saves, workers[p].result)
    /\ workers' = [workers EXCEPT ![p] = [workers[p] EXCEPT !.pc = "respond"]]
    /\ UNCHANGED <<dirExists, clock, faults, lastOp, clean>>

\* Lines 54 and 188 for worker p: save_history returns True and the request
\* is answered 200 with result.
RespondStep(p) ==
    /\ workers[p].pc = "respond"
    /\ workers' = [workers EXCEPT ![p] = [workers[p] EXCEPT !.pc = "done"]]
    /\ lastOp' = [op |-> "extract", data |-> workers[p].data, io |-> {},
                  fetched |-> workers[p].fetched, status |-> 200,
                  json |-> workers[p].result, saved |-> TRUE]
    /\ UNCHANGED <<dirExists, file, clock, faults, saves, clean>>

NextConcurrent ==
    \/ \E p \in Workers : LookupStep(p)
    \/ \E p \in Workers : LoadStep(p)
    \/ \E p \in Workers : OpenStep(p)
    \/ \E p \in Workers : DumpStep(p)
    \/ \E p \in Workers : RespondStep(p)

SpecConcurrent == Init /\ [][NextConcurrent]_vars

\* ------------------------------------------------------------------------
\* Properties
\* ------------------------------------------------------------------------

\* What load_history() returns in the current state, and what
\* get_previous_data(url) returns, when no OS call fails.
History == load_history(FS, {}).value
Previous(url) == get_previous_data(FS, {}, url).value

Min(a, b) == IF a < b THEN a ELSE b

\* The last request was an extraction answered with status 200.
Extracted200 == lastOp.op = "extract" /\ lastOp.status = 200

\* C1: after n save_history appends to a store that started empty, with no
\* OS call failing in between, load_history returns exactly min(n, 50)
\* records, the most recent first: record i of the history is the i-th
\* newest append.
C1_CapNewestFirst ==
    clean =>
        /\ Len(History) = Min(Len(saves), 50)
        /\ \A i \in 1..Len(History) : History[i] = saves[Len(saves) + 1 - i]

\* C1 witness: the 51st append has dropped the oldest record.
C1_Witness51 ==
    /\ clean
    /\ Len(saves) = 51
    /\ Len(History) = 50
    /\ History[1] = saves[51]
    /\ History[50] = saves[2]
    /\ \A i \in 1..Len(History) : History[i] # saves[1]

\* C2: right after an extraction whose save_history(r) succeeded,
\* get_previous_data(r.base_url) returns r.
C2_RoundTrip ==
    (lastOp.op = "extract" /\ lastOp.saved)
        => Previous(lastOp.json.base_url) = lastOp.json

\* C2 witness: r was appended to a store that holds an older, different
\* record with the same base URL.
C2_WitnessOlderRecord ==
    /\ lastOp.op = "extract"
    /\ lastOp.saved
    /\ Previous(lastOp.json.base_url) = lastOp.json
    /\ \E i \in 2..Len(History) :
           /\ History[i].base_url = lastOp.json.base_url
           /\ History[i].all_links # lastOp.json.all_links

\* The request of step lastOp -> lastOp' is a successful extraction of the
\* page that the request before it extracted successfully, the page has
\* not changed and no OS call failed during either request.
SamePageAgain ==
    /\ clock' = clock + 1
    /\ lastOp.op = "extract" /\ lastOp.status = 200 /\ lastOp.io = {}
    /\ lastOp'.op = "extract" /\ lastOp'.status = 200 /\ lastOp'.io = {}
    /\ lastOp'.json.base_url = lastOp.json.base_url
    /\ lastOp'.fetched.text = lastOp.fetched.text

NothingNew(op) == op.json.new_links = <<>> /\ op.json.new_count = 0

\* C3 as stated: when the same page URL is extracted twice in succession
\* and the page has not changed, the second response has no new links.
C3_SameUrlTwice == [][SamePageAgain => NothingNew(lastOp')]_vars

\* C3 amended: when the same page URL is extracted twice in succession
\* with the same options, the page has not changed and no history read or
\* write fails, the second response has new_links = [] and new_count = 0.
C3_SameRequestTwice ==
    [][(SamePageAgain /\ lastOp'.json.options = lastOp.json.options)
           => NothingNew(lastOp')]_vars

\* C3 witness: the two newest records are of successive requests for the
\* same URL with the same options and the same links; the second has
\* links and none of them is new.
C3_WitnessRepeat ==
    /\ Extracted200 /\ lastOp.io = {}
    /\ Len(History) >= 2
    /\ History[1] = lastOp.json
    /\ History[2].base_url = lastOp.json.base_url
    /\ History[2].options = lastOp.json.options
    /\ History[2].all_links = lastOp.json.all_links
    /\ History[2].timestamp + 1 = lastOp.json.timestamp
    /\ lastOp.json.all_links # <<>>
    /\ NothingNew(lastOp)

\* all_links without the links of the first record of stored that has the
\* base URL of r; all of all_links when stored has no such record.
ExpectedNewLinks(stored, r) ==
    LET same == {i \in 1..Len(stored) : stored[i].base_url = r.base_url}
        first == CHOOSE i \in same : \A j \in same : i <= j
        old == {stored[first].all_links[k] :
                    k \in 1..Len(stored[first].all_links)}
    IN IF same = {} THEN r.all_links
       ELSE SelectSeq(r.all_links, LAMBDA link : link \notin old)

\* C4: in a successful extraction new_links is exactly the links of the
\* fresh all_links that are not in the all_links of the most recent record
\* with the same base URL among the records the store yields to the request
\* (before the request's own record is saved), and all of all_links when
\* there is no such record.
C4_DiffAgainstMostRecent ==
    [][(clock' = clock + 1 /\ lastOp'.op = "extract" /\ lastOp'.status = 200)
           => lastOp'.json.new_links
                  = ExpectedNewLinks(load_history(FS, lastOp'.io).value,
                                     lastOp'.json)]_vars

\* C4 witness: the store held two records of the URL with different links;
\* the extraction reported some but not all of its links as new, namely
\* those the newer of the two lacks.
C4_WitnessTwoOlder ==
    /\ Extracted200 /\ lastOp.io = {}
    /\ Len(History) = 3
    /\ History[1] = lastOp.json
    /\ History[2].base_url = lastOp.json.base_url
    /\ History[3].base_url = lastOp.json.base_url
    /\ History[2].all_links # History[3].all_links
    /\ lastOp.json.new_links # <<>>
    /\ lastOp.json.new_links # lastOp.json.all_links
    /\ lastOp.json.new_links
           = ExpectedNewLinks(<<History[2], History[3]>>, lastOp.json)
    /\ lastOp.json.new_links
           # ExpectedNewLinks(<<History[3]>>, lastOp.json)

\* s can be obtained from t by deleting elements (order kept).
RECURSIVE IsSubsequence(_, _)
IsSubsequence(s, t) ==
    IF s = <<>> THEN TRUE
    ELSE IF t = <<>> THEN FALSE
    ELSE IF Head(s) = Head(t) THEN IsSubsequence(Tail(s), Tail(t))
    ELSE IsSubsequence(s, Tail(t))

\* C5: the new_links of every record an extraction returns, and of every
\* record in the history, is a subsequence of its all_links in the order of
\* all_links.
C5_NewLinksSubsequence ==
    /\ Extracted200
           => IsSubsequence(lastOp.json.new_links, lastOp.json.all_links)
    /\ \A i \in 1..Len(History) :
           IsSubsequence(History[i].new_links, History[i].all_links)

\* C5 witness: an extraction diffed against a previous record reports two
\* or more, but not all, of its links as new.
C5_WitnessProperDiff ==
    /\ Extracted200
    /\ Len(History) >= 2
    /\ History[2].base_url = lastOp.json.base_url
    /\ Len(lastOp.json.new_links) >= 2
    /\ Len(lastOp.json.new_links) < Len(lastOp.json.all_links)

\* The JSON body data carries a url that, trimmed, parses into a scheme and
\* a host.
ValidUrl(data) ==
    /\ data # EmptyDict
    /\ "url" \in DOMAIN data
    /\ urlparse(Strip(data["url"]), <<>>).scheme # <<>>
    /\ urlparse(Strip(data["url"]), <<>>).netloc # <<>>

\* The fetch of request op was made and failed (transport error or
\* non-success status), or was made and succeeded.
FetchFailed(op) == op.fetched # None /\ ~op.fetched.ok
FetchSucceeded(op) == op.fetched # None /\ op.fetched.ok

\* C6: an extraction request whose url is missing or does not parse into a
\* scheme and a host, or whose fetch fails, is answered 400 with an error
\* and leaves the data directory and the history file as they were.
C6_RejectedLeavesStore ==
    [][(/\ clock' = clock + 1
        /\ lastOp'.op = "extract"
        /\ (~ValidUrl(lastOp'.data) \/ FetchFailed(lastOp')))
           => /\ lastOp'.status = 400
              /\ DOMAIN lastOp'.json = {"error"}
              /\ file' = file
              /\ dirExists' = dirExists]_vars

\* C6 witness: a fetch answered 404 gave a 400 response while the history
\* held records.
C6_Witness404 ==
    /\ lastOp.op = "extract"
    /\ ValidUrl(lastOp.data)
    /\ FetchFailed(lastOp)
    /\ lastOp.fetched.exc = "404 Client Error"
    /\ lastOp.status = 400
    /\ Len(History) = 2

\* C7 as stated: whatever fails in the history store, a request with a
\* valid url whose fetch succeeds is answered 200 with its record.
C7_PersistenceNeverFailsResponse ==
    (lastOp.op = "extract" /\ ValidUrl(lastOp.data) /\ FetchSucceeded(lastOp))
        => /\ lastOp.status = 200
           /\ "error" \notin DOMAIN lastOp.json

\* C8 as stated: a successful request that omits options gets the response,
\* and leaves the history file, that the same request with options
\* {internal_only: true, remove_query: true, remove_anchors: true} gets from
\* the same state, page and time.
C8_OmittedEqualsDefaults ==
    [][(/\ clock' = clock + 1
        /\ lastOp'.op = "extract"
        /\ lastOp'.status = 200
        /\ "options" \notin DOMAIN lastOp'.data)
           => LET explicit ==
                      extract_links(FS, clock,
                          [url |-> lastOp'.data["url"],
                           options |-> DefaultOptions],
                          lastOp'.fetched, lastOp'.io)
              IN /\ explicit.status = 200
                 /\ explicit.json = lastOp'.json
                 /\ explicit.fs.file = file']_vars

\* C9: DELETE /api/history is answered 200 with success true unless an OS
\* call fails, whether or not the history file exists; after every clear
\* answered 200 there is no history file, load_history returns [],
\* get_previous_data returns None for every URL, and one more clear is
\* answered 200 again and changes nothing.
C9_ClearIdempotent ==
    lastOp.op = "clear"
        => /\ lastOp.io = {} => lastOp.status = 200
           /\ lastOp.status = 200
                  => /\ lastOp.json.success = TRUE
                     /\ file = Absent
                     /\ History = <<>>
                     /\ \A url \in {U1, U2} : Previous(url) = None
                     /\ clear_history(FS, {}).status = 200
                     /\ clear_history(FS, {}).fs = FS

\* C9 witness: the first request of a run is a clear, so no history file
\* has existed yet, and it is answered 200 with success true.
C9_WitnessNoFile ==
    /\ clock = 1
    /\ lastOp.op = "clear"
    /\ lastOp.status = 200
    /\ lastOp.json.success = TRUE
    /\ file = Absent

\* C10: the all_links of every extraction is strictly ascending by string
\* value: sorted, and without duplicates.
C10_SortedNoDuplicates ==
    Extracted200
        => \A i \in 1..(Len(lastOp.json.all_links) - 1) :
               StrLess(lastOp.json.all_links[i], lastOp.json.all_links[i + 1])

\* C10 witness: a page that names /b, /a and /b again, in this order, gives
\* the two links in ascending order.
C10_WitnessUnsortedPage ==
    /\ Extracted200
    /\ lastOp.fetched.text = << [href |-> <<"/", "b">>],
                                [href |-> <<"/", "a">>],
                                [href |-> <<"/", "b">>] >>
    /\ lastOp.json.all_links = << U1 \o <<"/", "a">>, U1 \o <<"/", "b">> >>

\* The last request was a successful extraction whose body gave no options,
\* so every option has its default.
DefaultExtraction == Extracted200 /\ "options" \notin DOMAIN lastOp.data

\* href resolved against base, with query and fragment cleared.
ClearedLink(href, base) ==
    geturl([urlparse(urljoin(base, href), <<>>)
                EXCEPT !.query = <<>>, !.fragment = <<>>])

\* The hrefs of the <a> elements of html that are neither empty nor "#".
Hrefs(html) ==
    {html[i]["href"] : i \in {j \in 1..Len(html) : "href" \in DOMAIN html[j]}}
        \ {<<>>, <<"#">>}

\* The links the page html must give under default options for base.
InternalLinks(html, base) ==
    {link \in {ClearedLink(href, base) : href \in Hrefs(html)} :
         urlparse(link, <<>>).netloc = urlparse(base, <<>>).netloc}

\* C11: under default options all_links holds exactly the links
\* { href resolved against the base URL, query and fragment cleared :
\*   href is neither empty nor "#", the link's netloc is the base URL's },
\* each of them once.
C11_DefaultLinkSet ==
    DefaultExtraction
        => /\ {lastOp.json.all_links[i] : i \in 1..Len(lastOp.json.all_links)}
                  = InternalLinks(lastOp.fetched.text, lastOp.json.base_url)
           /\ Len(lastOp.json.all_links)
                  = Cardinality(InternalLinks(lastOp.fetched.text,
                                              lastOp.json.base_url))

\* C11 witness (Scenario A): the page with hrefs "/a", "#", "", an <a>
\* without href, an external URL and "/a?x=1#f", extracted for base
\* "http://s" without options, gives the one link "http://s/a".
C11_WitnessScenarioA ==
    /\ DefaultExtraction
    /\ lastOp.json.base_url = U1
    /\ lastOp.fetched.text = PageA
    /\ lastOp.json.all_links = << U1 \o <<"/", "a">> >>

\* The keys of an ExtractionRecord.
RecordKeys ==
    {"base_url", "all_links", "new_links", "timestamp", "total_count",
     "new_count", "options"}

\* json is an ExtractionRecord for the request op: it has the keys of a
\* record, the trimmed url of the request, link lists with their lengths as
\* counts, and the time of the request.
WellFormedRecord(op) ==
    /\ DOMAIN op.json = RecordKeys
    /\ op.json.base_url = Strip(op.data["url"])
    /\ op.json.total_count = Len(op.json.all_links)
    /\ op.json.new_count = Len(op.json.new_links)
    /\ \A i \in 1..Len(op.json.new_links) :
           \E j \in 1..Len(op.json.all_links) :
               op.json.new_links[i] = op.json.all_links[j]

\* C12: every POST /api/extract is answered with status 200 and a
\* well-formed ExtractionRecord, or with an object holding only an error
\* and status 400 (exactly when the url is missing or invalid or the fetch
\* failed) or status 500 (an exception after a successful fetch).
C12_AlwaysOneResponse ==
    lastOp.op = "extract"
        => /\ lastOp.status \in {200, 400, 500}
           /\ lastOp.status = 200 => WellFormedRecord(lastOp)
           /\ lastOp.status # 200 => DOMAIN lastOp.json = {"error"}
           /\ lastOp.status = 400
                  <=> (~ValidUrl(lastOp.data) \/ FetchFailed(lastOp))
           /\ lastOp.status = 500
                  => (ValidUrl(lastOp.data) /\ FetchSucceeded(lastOp))

\* C12 witness: options that are not an object raise AttributeError in
\* extract_links_from_html; the request is answered 500 with an error and
\* the history, which holds a record, is as it was.
C12_WitnessBadOptions500 ==
    /\ lastOp.op = "extract"
    /\ lastOp.data = [url |-> U1, options |-> NotADict]
    /\ lastOp.io = {}
    /\ lastOp.status = 500
    /\ DOMAIN lastOp.json = {"error"}
    /\ Len(History) = 1

\* C13 as stated: a request served while the history file is absent or not
\* parseable never fails in load_history: GET /api/history answers 200 with
\* an empty list, and an extraction with a valid url and a successful fetch
\* answers 200 with every link reported as new.
C13_LoadNeverFails ==
    [][(clock' = clock + 1 /\ file.kind # "json")
           => /\ lastOp'.op = "history"
                  => (lastOp'.status = 200 /\ lastOp'.json = <<>>)
              /\ (/\ lastOp'.op = "extract"
                  /\ ValidUrl(lastOp'.data)
                  /\ FetchSucceeded(lastOp'))
                  => /\ lastOp'.status = 200
                     /\ lastOp'.json.new_links = lastOp'.json.all_links]_vars

\* What load_history() returns after the step, when no OS call fails.
HistoryAfterStep ==
    load_history([dir |-> dirExists', file |-> file'], {}).value

\* The history after the step is the record r followed by the records of
\* the history before it, in their order, cut to 50.
PrependedAndTrimmed(r) ==
    /\ Len(HistoryAfterStep) = Min(Len(History) + 1, 50)
    /\ HistoryAfterStep[1] = r
    /\ \A i \in 2..Len(HistoryAfterStep) : HistoryAfterStep[i] = History[i - 1]

\* C14 as stated: the stored sequence of records changes only through the
\* prepend-and-trim of an extraction answered 200 and through a clear:
\* GET /api/history and GET /api/health leave it unchanged, and an
\* extraction leaves it unchanged or adds its record at position 0, keeping
\* the records it retains in place.
C14_ChangesOnlyByAppendAndClear ==
    [][clock' = clock + 1
           => /\ lastOp'.op \in {"history", "health"}
                  => HistoryAfterStep = History
              /\ lastOp'.op = "extract"
                  => \/ HistoryAfterStep = History
                     \/ /\ lastOp'.status = 200
                        /\ PrependedAndTrimmed(lastOp'.json)]_vars

\* Both threads have answered their request, and both had loaded the
\* history for their append before any document was written.
BothReadBeforeEitherWrote ==
    \A p \in Workers : workers[p].pc = "done" /\ workers[p].writesSeen = 0

\* C15: when two extraction requests run at the same time and both load
\* the history before either writes, both are answered 200 and the file,
\* when it holds a document, holds the record of the last writer alone:
\* the record of the first writer is lost.
C15_LostUpdate ==
    (BothReadBeforeEitherWrote /\ file.kind = "json")
        => /\ Len(saves) = 2
           /\ History = <<saves[2]>>
           /\ \A i \in 1..Len(History) : History[i] # saves[1]

\* C15 witness: both requests were answered 200 with different records,
\* both wrote, and load_history returns one record, the last one written.
C15_WitnessLostUpdate ==
    /\ BothReadBeforeEitherWrote
    /\ file.kind = "json"
    /\ workers["A"].result # workers["B"].result
    /\ lastOp.status = 200
    /\ Len(saves) = 2
    /\ Len(History) = 1
    /\ History[1] = saves[2]

\* The counts of record r are the lengths of its link lists.
CountsMatch(r) ==
    /\ r.total_count = Len(r.all_links)
    /\ r.new_count = Len(r.new_links)

\* C16: the record of every extraction answered 200 and every record of the
\* history has total_count = len(all_links) and new_count = len(new_links).
C16_CountsAreLengths ==
    /\ Extracted200 => CountsMatch(lastOp.json)
    /\ \A i \in 1..Len(History) : CountsMatch(History[i])

\* C16 witness: a stored record of an extraction that found three links,
\* two of them new.
C16_WitnessThreeLinksTwoNew ==
    /\ Extracted200
    /\ lastOp.saved
    /\ History[1] = lastOp.json
    /\ Len(lastOp.json.all_links) = 3
    /\ Len(lastOp.json.new_links) = 2
    /\ lastOp.json.total_count = 3
    /\ lastOp.json.new_count = 2

\* Record i of saves is the latest record before the last one that has the
\* base URL of the last one.
LatestEarlier(i) ==
    /\ i \in 1..(Len(saves) - 1)
    /\ saves[i].base_url = saves[Len(saves)].base_url
    /\ \A j \in (i + 1)..(Len(saves) - 1) :
           saves[j].base_url # saves[Len(saves)].base_url

\* C17: when 50 or more extractions of other URLs were stored since the
\* latest extraction of a URL, the next extraction of that URL reports
\* every link as new.
C17_EvictionResetsDiff ==
    (Extracted200 /\ lastOp.saved /\ clean)
        => \A i \in 1..(Len(saves) - 1) :
               (LatestEarlier(i) /\ Len(saves) - 1 - i >= 50)
                   => /\ lastOp.json.new_links = lastOp.json.all_links
                      /\ lastOp.json.new_count = lastOp.json.total_count

\* C17 witness: U2 was extracted, then U1 50 times, then U2 again with the
\* page unchanged: all three links of the page are reported as new.
C17_WitnessRevisitAfter50 ==
    /\ Extracted200 /\ lastOp.saved /\ clean
    /\ Len(saves) = 52
    /\ LatestEarlier(1)
    /\ lastOp.json = saves[52]
    /\ lastOp.json.base_url = U2
    /\ saves[1].all_links = lastOp.json.all_links
    /\ Len(lastOp.json.all_links) = 3
    /\ lastOp.json.new_links = lastOp.json.all_links

\* C18: when the history file exists but is not a parseable document, an
\* extraction with a valid url and a successful fetch, served with no OS
\* call failing, is answered 200 and its append succeeds; and after every
\* append that succeeds on such a file, load_history returns exactly the
\* new record: the old content is gone.
C18_CorruptStoreReplaced ==
    [][(clock' = clock + 1 /\ file = Partial /\ lastOp'.op = "extract")
           => /\ (/\ ValidUrl(lastOp'.data)
                  /\ FetchSucceeded(lastOp')
                  /\ lastOp'.io = {})
                  => (lastOp'.status = 200 /\ lastOp'.saved)
              /\ lastOp'.saved
                  => /\ file'.kind = "json"
                     /\ HistoryAfterStep = <<lastOp'.json>>]_vars

\* C18 witness: a record was stored, a failed json.dump left the file
\* truncated, and the third request, served with no OS call failing,
\* stored its record: load_history returns that record alone.
C18_WitnessAfterTruncation ==
    /\ clock = 3
    /\ Extracted200 /\ lastOp.saved /\ lastOp.io = {}
    /\ ~clean
    /\ Len(saves) = 2
    /\ History = <<lastOp.json>>

\* The links of the sequence links that the record previous does not have
\* in its all_links.
NotIn(links, previous) ==
    SelectSeq(links,
              LAMBDA link : \A k \in 1..Len(previous.all_links) :
                                previous.all_links[k] # link)

\* C19: when the same unchanged page is extracted twice in succession with
\* different options (no OS call failing), the second extraction is diffed
\* against the record of the first: its new_links is exactly the links of
\* its all_links that the first's all_links does not have.
C19_LookupIgnoresOptions ==
    [][(SamePageAgain /\ lastOp'.json.options # lastOp.json.options)
           => /\ lastOp'.json.new_links
                     = NotIn(lastOp'.json.all_links, lastOp.json)
              /\ lastOp'.json.new_count = Len(lastOp'.json.new_links)]_vars

\* C19 witness: "http://s" was extracted without options and then, the
\* page unchanged, with internal_only false: the second record has the
\* internal link of the first and reports the external link alone as new.
C19_WitnessExternalIsNew ==
    /\ Extracted200 /\ lastOp.io = {}
    /\ lastOp.fetched.text = PageA
    /\ lastOp.json.options = [internal_only |-> FALSE]
    /\ Len(History) >= 2
    /\ History[1] = lastOp.json
    /\ History[2].base_url = lastOp.json.base_url
    /\ History[2].options = EmptyDict
    /\ History[2].timestamp + 1 = lastOp.json.timestamp
    /\ History[2].all_links = << U1 \o <<"/", "a">> >>
    /\ lastOp.json.all_links = << U2, U1 \o <<"/", "a">> >>
    /\ lastOp.json.new_links = << U2 >>

====
